---- MODULE Spec2Model ----
(***************************************************************************)
(* dmon: double-fork daemonization with a one-shot pipe from the daemon to *)
(* the original process.                                                   *)
(*                                                                         *)
(* Three operating-system processes take part: the original process        *)
(* ("orig"), the intermediate child that becomes session leader ("inter")  *)
(* and the daemon ("daemon").  Each process is a program counter; the pipe *)
(* is its byte buffer plus the sets of processes that hold an open read    *)
(* or write descriptor.  Text written to a stream is a sequence of tokens: *)
(* fixed pieces of a format string are one token each, message bytes are   *)
(* one token per byte.                                                     *)
(***************************************************************************)
EXTENDS Integers, Sequences, FiniteSets, TLC

VARIABLES
    cfg,        \* daemon.rs Daemon: user, stdout, stderr, pidfile, umask, workdir
    pc,         \* position of each process
    exitCode,   \* exit code of each process, None while it has not exited
    rd,         \* processes holding the read end of the pipe
    wr,         \* processes holding the write end of the pipe
    buf,        \* bytes written to the pipe so far
    handle,     \* the daemon's Parent(Option<File>), or Unborn / Dropped
    out,        \* lines each process printed with eprintln!
    readErr,    \* read_to_string returned Err in the original process
    started,    \* configuration steps Daemon::prepare has started, in order
    failed,     \* the step of prepare that returned Err, or "none"
    prepErr,    \* the Err(String) prepare returned
    privLog,    \* system calls drop_privileges has issued, in order
    resolved,   \* (unistd::User, unistd::Group) bound by drop_privileges
    dproc,      \* the daemon's uid, gid, supplementary groups, env, cwd, umask
    redirected, \* standard streams of the daemon already dup2'ed
    pidfile,    \* state of the file at the pidfile path
    calls,      \* notify/success calls made on the handle
    writes,     \* write_all calls issued on the pipe
    lastRet,    \* io::Result of the latest notify/success call
    opens,      \* per descriptor slot: the open(2) that made it (path, flags, uid, cwd)
    files,      \* content of the regular files stdout/stderr may name, None if absent
    offset,     \* file offset of the descriptions behind stdout and stderr
    lastSet,    \* the builder call made last: the setter and its argument
    input,      \* the string handed to User::from / Group::from / Privileges::from
    parsed,     \* what the three conversions made of `input`
    session,    \* the session each process belongs to, named by its leader
    prev        \* how each earlier run with this configuration ended: its `failed`

vars == <<cfg, pc, exitCode, rd, wr, buf, handle, out, readErr, started,
          failed, prepErr, privLog, resolved, dproc, redirected, pidfile,
          calls, writes, lastRet, opens, files, offset, lastSet, input, parsed,
          session, prev>>

Procs == {"orig", "inter", "daemon"}

\* Option<T>
None == [tag |-> "None"]

Some(v) == [tag |-> "Some", val |-> v]

\* the Parent value before the second fork made it, and after it went out of scope
Unborn == [tag |-> "Unborn"]

Dropped == [tag |-> "Dropped"]

(***************************************************************************)
(* Bounds of the model.                                                    *)
(***************************************************************************)
\* notify/success calls the payload makes on one handle
MaxCalls == 2

(***************************************************************************)
(* fork.rs                                                                 *)
(***************************************************************************)
SUCCESS == <<"O", "K">>

\* messages the payload may pass to Parent::notify
Msgs == {<<>>, <<"O">>, <<"K">>, SUCCESS, <<"e", "r">>}

\* Child::wait as it would be with a prefix test instead of an exact match
WaitPrefix(message) ==
    IF message # <<>> /\ message[1] = SUCCESS[1]
    THEN [code |-> 0, lines |-> <<>>]
    ELSE IF message = <<>>
    THEN [code |-> 1, lines |-> << <<"daemon failed to start">> >>]
    ELSE [code |-> 1, lines |-> << <<"daemon failed to start: ">> \o message >>]

\* Child::wait as it would be without the arm for the empty message
WaitNoEmptyArm(message) ==
    IF message = SUCCESS
    THEN [code |-> 0, lines |-> <<>>]
    ELSE [code |-> 1, lines |-> << <<"daemon failed to start: ">> \o message >>]

\* Child::wait as it would be if the message arm printed its first byte only
WaitTruncated(message) ==
    IF message = SUCCESS
    THEN [code |-> 0, lines |-> <<>>]
    ELSE IF message = <<>>
    THEN [code |-> 1, lines |-> << <<"daemon failed to start">> >>]
    ELSE [code |-> 1, lines |-> << <<"daemon failed to start: ", message[1]>> >>]

\* Child::wait, after read() returned `message`: exit code and lines printed
Wait(message) ==
    IF message = SUCCESS
    THEN [code |-> 0, lines |-> <<>>]
    ELSE IF message = <<>>
    THEN [code |-> 1, lines |-> << <<"daemon failed to start">> >>]
    ELSE [code |-> 1, lines |-> << <<"daemon failed to start: ">> \o message >>]

\* Child::read as it would be if the error were dropped and the bytes read so
\* far went on to wait
OnReadErrClassify(message) == Wait(message)

\* Child::read, Err arm, `message` being what was read so far: the line printed
\* with eprintln! and the exit code
OnReadErr(message) ==
    [code |-> 1, lines |-> << <<"failed to read message from daemon process: ", "errno">> >>]

\* Pipe::read as it would be if the write end stayed open
PipeReadKeep(p, w) == w

\* Pipe::read: takes the read end, the write end is dropped (closed)
PipeRead(p, w) == w \ {p}

\* Pipe::write as it would be if the read end stayed open
PipeWriteKeep(p, r) == r

\* Pipe::write: takes the write end, the read end is dropped (closed)
PipeWrite(p, r) == r \ {p}

\* is_waiting as it would be with is_none in place of is_some
IsWaitingNone(h) == h.tag = "None"

\* Parent::is_waiting: self.0.is_some()
IsWaiting(h) == h.tag = "Some"

\* notify as it would be if the File taken out were leaked, not dropped
DropFileLeaks(p, w) == w

\* drop of the File at the end of notify, on the Ok and on the `?` path alike:
\* the process closes its write end
DropFile(p, w) == w \ {p}

\* notify as it would be with a borrow (as_mut) in place of Option::take
TakeKeep(h) == h

\* Option::take in Parent::notify: what the handle holds afterwards
Take(h) == None

\* child() as it would be if the intermediate process did not exit
SecondForkParentStays == [exits |-> FALSE, code |-> 0]

\* fork(2): the child starts in the session of its parent
ForkSession(s, parent, child) == [s EXCEPT ![child] = s[parent]]

\* child() as it would be without the call of setsid
SetsidSkipped(s, p) == s

\* setsid(2): the caller becomes the leader of a new session
SetsidSession(s, p) == [s EXCEPT ![p] = p]

\* child() as it would be if a failed setsid ended the process with code 0
SetsidErrZero == [code |-> 0, line |-> <<"already process group leader">>]

\* child(), setsid().is_err(): the line printed with eprintln! and the exit code
SetsidErr == [code |-> 1, line |-> <<"already process group leader">>]

\* child(), second fork, Err arm: the line printed with eprintln! and the exit
\* code
Fork2Err == [code |-> 1, line |-> <<"failed to fork off for the second time: ", "errno">>]

\* child(), second fork, ForkResult::Parent arm: the intermediate process
\* exits at once with this code
SecondForkParent == [exits |-> TRUE, code |-> 0]

(***************************************************************************)
(* user.rs: the system identity database and the identity sum types        *)
(***************************************************************************)
PasswdDb ==
    { [name |-> "root", uid |-> 0,  gid |-> 0,  dir |-> "/root",    shell |-> "/bin/sh"],
      [name |-> "www",  uid |-> 33, gid |-> 33, dir |-> "/var/www", shell |-> "/bin/false"] }

GroupDb ==
    { [name |-> "root", gid |-> 0,  mem |-> {}],
      [name |-> "www",  gid |-> 33, mem |-> {}],
      [name |-> "adm",  gid |-> 4,  mem |-> {"www"}] }

\* enum User { Uid(Uid), Name(String) }
UserIds == { [tag |-> "Uid", val |-> 33], [tag |-> "Name", val |-> "www"],
             [tag |-> "Name", val |-> "ghost"] }

\* enum Group { Gid(Gid), Name(String) }
GroupIds == { [tag |-> "Gid", val |-> 4], [tag |-> "Name", val |-> "nogrp"] }

\* impl Display for User
UserDisplay(u) ==
    IF u.tag = "Uid" THEN <<"user with ID (", ToString(u.val), ")">>
                     ELSE <<"user '", u.val, "'">>

\* impl Display for Group
GroupDisplay(g) ==
    IF g.tag = "Gid" THEN <<"group with ID (", ToString(g.val), ")">>
                     ELSE <<"group '", g.val, "'">>

\* User::get: the passwd records matching the identity (Ok(None) when empty)
UserGet(u) ==
    IF u.tag = "Uid" THEN {r \in PasswdDb : r.uid = u.val}
                     ELSE {r \in PasswdDb : r.name = u.val}

\* Group::get: the group records matching the identity
GroupGet(g) ==
    IF g.tag = "Gid" THEN {r \in GroupDb : r.gid = g.val}
                     ELSE {r \in GroupDb : r.name = g.val}

\* Privileges::get as it would be if the user's primary group were always taken
GroupOfPrimary(priv, user) == [tag |-> "Gid", val |-> user.gid]

\* Privileges::get: the group identity that is looked up for a resolved user
GroupOf(priv, user) ==
    IF priv.group # None THEN priv.group.val
                         ELSE [tag |-> "Gid", val |-> user.gid]

\* initgroups(3): the supplementary group list for a user name and a gid
InitGroups(name, gid) == {gid} \cup {g.gid : g \in {x \in GroupDb : name \in x.mem}}

\* set_env: USER, HOME and SHELL of the resolved user
SetEnv(user) == [USER |-> user.name, HOME |-> user.dir, SHELL |-> user.shell]

\* drop_privileges as it would be with setuid ahead of setgid
DropOrderUidFirst == <<"get", "initgroups", "setuid", "setgid", "set_env">>

\* the order of the fallible calls in Privileges::drop_privileges
DropOrder == <<"get", "initgroups", "setgid", "setuid", "set_env">>

(***************************************************************************)
(* fs.rs                                                                   *)
(***************************************************************************)
\* descriptor slots prepare fills: the pidfile and the three standard streams
Slots == {"pidfile", "stdin", "stdout", "stderr"}

\* the regular files a stdout/stderr path of the model may name
LogPaths == {"out.log"}

\* open() as it would be with O_TRUNC in place of O_APPEND
OpenFlagsTrunc(rw) ==
    IF rw = "ReadOnly" THEN {"O_RDONLY", "O_CREAT"}
                       ELSE {"O_WRONLY", "O_TRUNC", "O_CREAT"}

\* open(): the flags for Rw::ReadOnly and Rw::WriteOnly, O_CREAT added to both
OpenFlags(rw) ==
    IF rw = "ReadOnly" THEN {"O_RDONLY", "O_CREAT"}
                       ELSE {"O_WRONLY", "O_APPEND", "O_CREAT"}

\* fcntl::open on `path`: the files afterwards (/dev/null is a device)
OpenFile(fs, path, flags) ==
    IF path \notin DOMAIN fs THEN fs
    ELSE IF fs[path] = None
    THEN (IF "O_CREAT" \in flags THEN [fs EXCEPT ![path] = Some(<<>>)] ELSE fs)
    ELSE IF "O_TRUNC" \in flags /\ "O_RDONLY" \notin flags
    THEN [fs EXCEPT ![path] = Some(<<>>)]
    ELSE fs

\* write(2) of one token at offset `off` of `content`
WriteAt(content, off, data) ==
    [i \in 1..(IF off + 1 > Len(content) THEN off + 1 ELSE Len(content)) |->
        IF i = off + 1 THEN data
        ELSE IF i <= Len(content) THEN content[i] ELSE "\\0"]

(***************************************************************************)
(* daemon.rs                                                               *)
(***************************************************************************)
DEFAULT_UMASK == 23      \* 0o027

Configs ==
    [ user    : {None} \cup {Some(p) : p \in [user : UserIds, group : {None} \cup {Some(g) : g \in GroupIds}]},
      stdout  : {"/dev/null", "out.log"},
      stderr  : {"/dev/null", "out.log"},
      pidfile : {None, Some("d.pid")},
      umask   : {DEFAULT_UMASK, 0},
      workdir : {"/", "work"} ]

\* prepare as it would be with stderr redirected ahead of stdout
PrepareOrderStderrFirst == <<"pidfile", "privileges", "chdir", "umask", "stdin", "stderr", "stdout">>

\* prepare as it would be with the change of directory ahead of everything
PrepareOrderChdirFirst == <<"chdir", "pidfile", "privileges", "umask", "stdin", "stdout", "stderr">>

\* prepare as it would be with the privilege drop ahead of the pidfile
PrepareOrderSwapped == <<"privileges", "pidfile", "chdir", "umask", "stdin", "stdout", "stderr">>

\* the order in which Daemon::prepare applies the configuration
PrepareOrder == <<"pidfile", "privileges", "chdir", "umask", "stdin", "stdout", "stderr">>

\* position of a step in a sequence of distinct steps
Index(seq, s) == CHOOSE i \in 1..Len(seq) : seq[i] = s

\* prepare as it would be without the call of stat::umask
AfterStepSkipUmask(s) ==
    IF Index(PrepareOrder, s) = Len(PrepareOrder) THEN "payload"
    ELSE IF PrepareOrder[Index(PrepareOrder, s) + 1] = "umask"
         THEN PrepareOrder[Index(PrepareOrder, s) + 2]
         ELSE PrepareOrder[Index(PrepareOrder, s) + 1]

\* control after `s` completed in Daemon::prepare; Ok(()) returns to daemonize
AfterStep(s) ==
    IF Index(PrepareOrder, s) = Len(PrepareOrder) THEN "payload"
    ELSE PrepareOrder[Index(PrepareOrder, s) + 1]

\* control after `s` completed in drop_privileges; Ok(()) returns to prepare
AfterDrop(s) ==
    IF Index(DropOrder, s) = Len(DropOrder) THEN AfterStep("privileges")
    ELSE DropOrder[Index(DropOrder, s) + 1]

\* daemonize as it would be if the Err arm sent the message to the parent
OnPrepareErrNotify(err) == [notify |-> TRUE, line |-> err, code |-> 1]

\* Daemon::daemonize, Err arm: what is sent through the handle, what is
\* printed with eprintln!, and the exit code
OnPrepareErr(err) == [notify |-> FALSE, line |-> err, code |-> 1]

(***************************************************************************)
(* Initial state: daemonize is about to be called in the original process. *)
(***************************************************************************)
Init ==
    /\ cfg \in Configs
    /\ pc = [p \in Procs |-> IF p = "orig" THEN "start" ELSE "none"]
    /\ exitCode = [p \in Procs |-> None]
    /\ rd = {}
    /\ wr = {}
    /\ buf = <<>>
    /\ handle = Unborn
    /\ out = [p \in Procs |-> <<>>]
    /\ readErr = FALSE
    /\ started = <<>>
    /\ failed = "none"
    /\ prepErr = <<>>
    /\ privLog = <<>>
    /\ resolved = None
    /\ dproc = [uid |-> 0, gid |-> 0, groups |-> {0},
                env |-> [USER |-> "root", HOME |-> "/root", SHELL |-> "/bin/sh"],
                cwd |-> "start", umask |-> 18]
    /\ redirected = {}
    /\ pidfile \in (IF cfg.pidfile = None THEN {"absent"} ELSE {"absent", "stale"})
    /\ calls = 0
    /\ writes = <<>>
    /\ lastRet = "none"
    /\ opens = [d \in Slots |-> None]
    /\ files = [f \in LogPaths |-> None]
    /\ offset = [d \in {"stdout", "stderr"} |-> 0]
    /\ lastSet = None
    /\ input = <<>>
    /\ parsed = None
    /\ session = [orig |-> "shell", inter |-> "none", daemon |-> "none"]
    /\ prev = <<>>

(***************************************************************************)
(* Process exit                                                            *)
(***************************************************************************)
\* eprintln! of `lines`, then process::exit(code): the kernel closes every
\* descriptor the process holds
Exit(p, code, lines) ==
    /\ pc' = [pc EXCEPT ![p] = "exited"]
    /\ exitCode' = [exitCode EXCEPT ![p] = Some(code)]
    /\ out' = [out EXCEPT ![p] = @ \o lines]
    /\ rd' = rd \ {p}
    /\ wr' = wr \ {p}

prepVars == <<started, failed, prepErr, privLog, resolved, dproc, redirected, pidfile>>
callVars == <<calls, writes, lastRet>>
fsVars == <<opens, files, offset>>
auxVars == <<lastSet, input, parsed, session, prev>>
convVars == <<lastSet, input, parsed, prev>>

(***************************************************************************)
(* fork.rs: the original process                                           *)
(***************************************************************************)
\* fork(): Pipe::new
PipeNew ==
    /\ pc["orig"] = "start"
    /\ \E ok \in BOOLEAN :
         IF ok
         THEN /\ rd' = {"orig"}
              /\ wr' = {"orig"}
              /\ pc' = [pc EXCEPT !["orig"] = "fork1"]
              /\ UNCHANGED <<exitCode, out>>
         ELSE Exit("orig", 1, << <<"failed to create interprocess channel: ", "errno">> >>)
    /\ UNCHANGED <<cfg, buf, handle, readErr>>
    /\ UNCHANGED prepVars
    /\ UNCHANGED callVars
    /\ UNCHANGED fsVars
    /\ UNCHANGED auxVars

\* fork(): the first unistd::fork; the child inherits both pipe ends
Fork1 ==
    /\ pc["orig"] = "fork1"
    /\ \E ok \in BOOLEAN :
         IF ok
         THEN /\ pc' = [pc EXCEPT !["orig"] = "parent", !["inter"] = "child"]
              /\ rd' = rd \cup {"inter"}
              /\ wr' = wr \cup {"inter"}
              /\ session' = ForkSession(session, "orig", "inter")
              /\ UNCHANGED <<exitCode, out>>
         ELSE /\ Exit("orig", 1, << <<"failed to fork off for the first time: ", "errno">> >>)
              /\ UNCHANGED session
    /\ UNCHANGED <<cfg, buf, handle, readErr>>
    /\ UNCHANGED prepVars
    /\ UNCHANGED callVars
    /\ UNCHANGED fsVars
    /\ UNCHANGED convVars

\* parent(): Child::from(pipe.read())
ParentPipeRead ==
    /\ pc["orig"] = "parent"
    /\ wr' = PipeRead("orig", wr)
    /\ pc' = [pc EXCEPT !["orig"] = "reading"]
    /\ UNCHANGED <<cfg, exitCode, rd, buf, handle, out, readErr>>
    /\ UNCHANGED prepVars
    /\ UNCHANGED callVars
    /\ UNCHANGED fsVars
    /\ UNCHANGED auxVars

\* Child::read returns at end-of-stream (no write end is open any more),
\* then Child::wait classifies the message and exits
ReadEof ==
    /\ pc["orig"] = "reading"
    /\ wr = {}
    /\ Exit("orig", Wait(buf).code, Wait(buf).lines)
    /\ UNCHANGED <<cfg, buf, handle, readErr>>
    /\ UNCHANGED prepVars
    /\ UNCHANGED callVars
    /\ UNCHANGED fsVars
    /\ UNCHANGED auxVars

\* Child::read: read_to_string returns Err
ReadError ==
    /\ pc["orig"] = "reading"
    /\ readErr' = TRUE
    /\ Exit("orig", OnReadErr(buf).code, OnReadErr(buf).lines)
    /\ UNCHANGED <<cfg, buf, handle>>
    /\ UNCHANGED prepVars
    /\ UNCHANGED callVars
    /\ UNCHANGED fsVars
    /\ UNCHANGED auxVars

(***************************************************************************)
(* fork.rs: the intermediate process                                       *)
(***************************************************************************)
\* child(): let pipe = pipe.write()
ChildPipeWrite ==
    /\ pc["inter"] = "child"
    /\ rd' = PipeWrite("inter", rd)
    /\ pc' = [pc EXCEPT !["inter"] = "setsid"]
    /\ UNCHANGED <<cfg, exitCode, wr, buf, handle, out, readErr>>
    /\ UNCHANGED prepVars
    /\ UNCHANGED callVars
    /\ UNCHANGED fsVars
    /\ UNCHANGED auxVars

\* child(): setsid()
Setsid ==
    /\ pc["inter"] = "setsid"
    /\ \E ok \in BOOLEAN :
         IF ok
         THEN /\ pc' = [pc EXCEPT !["inter"] = "fork2"]
              /\ session' = SetsidSession(session, "inter")
              /\ UNCHANGED <<exitCode, out, rd, wr>>
         ELSE /\ Exit("inter", SetsidErr.code, <<SetsidErr.line>>)
              /\ UNCHANGED session
    /\ UNCHANGED <<cfg, buf, handle, readErr>>
    /\ UNCHANGED prepVars
    /\ UNCHANGED callVars
    /\ UNCHANGED fsVars
    /\ UNCHANGED convVars

\* child(): the second unistd::fork; the daemon inherits what the
\* intermediate process holds and wraps the write end in Parent::new
Fork2 ==
    /\ pc["inter"] = "fork2"
    /\ \E ok \in BOOLEAN :
         IF ok
         THEN /\ pc' = [pc EXCEPT !["inter"] = "forked", !["daemon"] = PrepareOrder[1]]
              /\ rd' = IF "inter" \in rd THEN rd \cup {"daemon"} ELSE rd
              /\ wr' = IF "inter" \in wr THEN wr \cup {"daemon"} ELSE wr
              /\ handle' = Some("pipe")
              /\ session' = ForkSession(session, "inter", "daemon")
              /\ UNCHANGED <<exitCode, out>>
         ELSE /\ Exit("inter", Fork2Err.code, <<Fork2Err.line>>)
              /\ UNCHANGED <<handle, session>>
    /\ UNCHANGED <<cfg, buf, readErr>>
    /\ UNCHANGED prepVars
    /\ UNCHANGED callVars
    /\ UNCHANGED fsVars
    /\ UNCHANGED convVars

\* child(): Ok(ForkResult::Parent { .. }) => exit(0)
InterExit ==
    /\ pc["inter"] = "forked"
    /\ SecondForkParent.exits
    /\ Exit("inter", SecondForkParent.code, <<>>)
    /\ UNCHANGED <<cfg, buf, handle, readErr>>
    /\ UNCHANGED prepVars
    /\ UNCHANGED callVars
    /\ UNCHANGED fsVars
    /\ UNCHANGED auxVars

(***************************************************************************)
(* daemon.rs: Daemon::prepare in the daemon process                        *)
(***************************************************************************)
forkVars == <<cfg, exitCode, rd, wr, buf, handle, out, readErr>>

\* daemonize as it would be if the Result of prepare were dropped and the
\* handle returned all the same
FailReturnsHandle(step, err) ==
    /\ failed' = step
    /\ prepErr' = err
    /\ pc' = [pc EXCEPT !["daemon"] = "payload"]

\* prepare as it would be if a failing step were recorded and then passed over
FailContinue(step, err) ==
    /\ failed' = step
    /\ prepErr' = err
    /\ pc' = [pc EXCEPT !["daemon"] = AfterStep(step)]

\* a step of prepare returns Err(err): `?` leaves prepare at once
Fail(step, err) ==
    /\ failed' = step
    /\ prepErr' = err
    /\ pc' = [pc EXCEPT !["daemon"] = "prepare_err"]

\* pidfile::create(&pidfile)?, run only if a pidfile is configured:
\* exclusive create, then the process id and a newline are written
PidfileCreate ==
    /\ pc["daemon"] = "pidfile"
    /\ IF cfg.pidfile = None
       THEN /\ pc' = [pc EXCEPT !["daemon"] = AfterStep("pidfile")]
            /\ UNCHANGED <<started, failed, prepErr, pidfile, opens>>
       ELSE /\ started' = Append(started, "pidfile")
            /\ IF pidfile # "absent"
               THEN /\ Fail("pidfile", <<"failed to create pidfile '", cfg.pidfile.val, "': ", "already exists">>)
                    /\ UNCHANGED <<pidfile, opens>>
               ELSE \E ok \in BOOLEAN :
                      IF ok
                      THEN /\ pidfile' = "written"
                           /\ opens' = [opens EXCEPT !["pidfile"] =
                                           Some([path |-> cfg.pidfile.val,
                                                 flags |-> {"O_WRONLY", "O_CREAT", "O_EXCL"},
                                                 uid |-> dproc.uid, gid |-> dproc.gid,
                                                 cwd |-> dproc.cwd])]
                           /\ pc' = [pc EXCEPT !["daemon"] = AfterStep("pidfile")]
                           /\ UNCHANGED <<failed, prepErr>>
                      ELSE /\ Fail("pidfile", <<"failed to create pidfile '", cfg.pidfile.val, "': ", "errno">>)
                           /\ UNCHANGED <<pidfile, opens>>
    /\ UNCHANGED <<privLog, resolved, dproc, redirected, files, offset>>
    /\ UNCHANGED forkVars
    /\ UNCHANGED callVars
    /\ UNCHANGED auxVars

\* if let Some(user) = self.user { user.drop_privileges()?; }
Privileges ==
    /\ pc["daemon"] = "privileges"
    /\ IF cfg.user = None
       THEN /\ pc' = [pc EXCEPT !["daemon"] = AfterStep("privileges")]
            /\ UNCHANGED started
       ELSE /\ started' = Append(started, "privileges")
            /\ pc' = [pc EXCEPT !["daemon"] = DropOrder[1]]
    /\ UNCHANGED <<failed, prepErr, privLog, resolved, dproc, redirected, pidfile>>
    /\ UNCHANGED forkVars
    /\ UNCHANGED callVars
    /\ UNCHANGED fsVars
    /\ UNCHANGED auxVars

\* drop_privileges: let (user, group) = self.get()?
PrivilegesGet ==
    /\ pc["daemon"] = "get"
    /\ privLog' = Append(privLog, "get")
    /\ \E uok \in BOOLEAN, gok \in BOOLEAN :
         LET us == UserGet(cfg.user.val.user) IN
         IF ~uok
         THEN /\ Fail("privileges", UserDisplay(cfg.user.val.user) \o <<": ", "errno">>)
              /\ UNCHANGED resolved
         ELSE IF us = {}
         THEN /\ Fail("privileges", UserDisplay(cfg.user.val.user) \o <<" does not exist">>)
              /\ UNCHANGED resolved
         ELSE \E u \in us :
                LET gid == GroupOf(cfg.user.val, u)
                    gs  == GroupGet(gid) IN
                IF ~gok
                THEN /\ Fail("privileges", GroupDisplay(gid) \o <<": ", "errno">>)
                     /\ UNCHANGED resolved
                ELSE IF gs = {}
                THEN /\ Fail("privileges", GroupDisplay(gid) \o <<" does not exist">>)
                     /\ UNCHANGED resolved
                ELSE \E g \in gs :
                       /\ resolved' = [user |-> u, group |-> g]
                       /\ pc' = [pc EXCEPT !["daemon"] = AfterDrop("get")]
                       /\ UNCHANGED <<failed, prepErr>>
    /\ UNCHANGED <<started, dproc, redirected, pidfile>>
    /\ UNCHANGED forkVars
    /\ UNCHANGED callVars
    /\ UNCHANGED fsVars
    /\ UNCHANGED auxVars

\* drop_privileges: unistd::initgroups(&name, group.gid)
Initgroups ==
    /\ pc["daemon"] = "initgroups"
    /\ privLog' = Append(privLog, "initgroups")
    /\ \E ok \in BOOLEAN :
         IF ok
         THEN /\ dproc' = [dproc EXCEPT !.groups = InitGroups(resolved.user.name, resolved.group.gid)]
              /\ pc' = [pc EXCEPT !["daemon"] = AfterDrop("initgroups")]
              /\ UNCHANGED <<failed, prepErr>>
         ELSE /\ Fail("privileges", <<"failed to set supplementary group list for user '",
                                      resolved.user.name, "': ", "errno">>)
              /\ UNCHANGED dproc
    /\ UNCHANGED <<started, resolved, redirected, pidfile>>
    /\ UNCHANGED forkVars
    /\ UNCHANGED callVars
    /\ UNCHANGED fsVars
    /\ UNCHANGED auxVars

\* drop_privileges: unistd::setgid(group.gid)
Setgid ==
    /\ pc["daemon"] = "setgid"
    /\ privLog' = Append(privLog, "setgid")
    /\ \E ok \in BOOLEAN :
         IF ok
         THEN /\ dproc' = [dproc EXCEPT !.gid = resolved.group.gid]
              /\ pc' = [pc EXCEPT !["daemon"] = AfterDrop("setgid")]
              /\ UNCHANGED <<failed, prepErr>>
         ELSE /\ Fail("privileges", <<"failed to set group to '", resolved.group.name, "': ", "errno">>)
              /\ UNCHANGED dproc
    /\ UNCHANGED <<started, resolved, redirected, pidfile>>
    /\ UNCHANGED forkVars
    /\ UNCHANGED callVars
    /\ UNCHANGED fsVars
    /\ UNCHANGED auxVars

\* drop_privileges: unistd::setuid(user.uid)
Setuid ==
    /\ pc["daemon"] = "setuid"
    /\ privLog' = Append(privLog, "setuid")
    /\ \E ok \in BOOLEAN :
         IF ok
         THEN /\ dproc' = [dproc EXCEPT !.uid = resolved.user.uid]
              /\ pc' = [pc EXCEPT !["daemon"] = AfterDrop("setuid")]
              /\ UNCHANGED <<failed, prepErr>>
         ELSE /\ Fail("privileges", <<"failed to set user to '", resolved.user.name, "': ", "errno">>)
              /\ UNCHANGED dproc
    /\ UNCHANGED <<started, resolved, redirected, pidfile>>
    /\ UNCHANGED forkVars
    /\ UNCHANGED callVars
    /\ UNCHANGED fsVars
    /\ UNCHANGED auxVars

\* drop_privileges: set_env(&user); Ok(())
SetEnvVars ==
    /\ pc["daemon"] = "set_env"
    /\ privLog' = Append(privLog, "set_env")
    /\ dproc' = [dproc EXCEPT !.env = SetEnv(resolved.user)]
    /\ pc' = [pc EXCEPT !["daemon"] = AfterDrop("set_env")]
    /\ UNCHANGED <<started, failed, prepErr, resolved, redirected, pidfile>>
    /\ UNCHANGED forkVars
    /\ UNCHANGED callVars
    /\ UNCHANGED fsVars
    /\ UNCHANGED auxVars

\* env::set_current_dir(&self.workdir)
Chdir ==
    /\ pc["daemon"] = "chdir"
    /\ started' = Append(started, "chdir")
    /\ \E ok \in BOOLEAN :
         IF ok
         THEN /\ dproc' = [dproc EXCEPT !.cwd = cfg.workdir]
              /\ pc' = [pc EXCEPT !["daemon"] = AfterStep("chdir")]
              /\ UNCHANGED <<failed, prepErr>>
         ELSE /\ Fail("chdir", <<"failed to change working directory to '", cfg.workdir, "': ", "errno">>)
              /\ UNCHANGED dproc
    /\ UNCHANGED <<privLog, resolved, redirected, pidfile>>
    /\ UNCHANGED forkVars
    /\ UNCHANGED callVars
    /\ UNCHANGED fsVars
    /\ UNCHANGED auxVars

\* stat::umask(self.umask)
Umask ==
    /\ pc["daemon"] = "umask"
    /\ started' = Append(started, "umask")
    /\ dproc' = [dproc EXCEPT !.umask = cfg.umask]
    /\ pc' = [pc EXCEPT !["daemon"] = AfterStep("umask")]
    /\ UNCHANGED <<failed, prepErr, privLog, resolved, redirected, pidfile>>
    /\ UNCHANGED forkVars
    /\ UNCHANGED callVars
    /\ UNCHANGED fsVars
    /\ UNCHANGED auxVars

\* fs::redirect_stdin / redirect_stdout / redirect_stderr: open(file, rw),
\* then dup2 onto the stream; the opened descriptor is dropped either way
Redirect(stream, file, rw) ==
    /\ pc["daemon"] = stream
    /\ started' = Append(started, stream)
    /\ \E res \in {"ok", "open", "dup2"} :
         IF res = "open"
         THEN /\ Fail(stream, <<"failed to redirect ", stream, " to '", file, "': ",
                                "failed to open file: ", "errno">>)
              /\ UNCHANGED <<redirected, opens, files, offset>>
         ELSE /\ files' = OpenFile(files, file, OpenFlags(rw))
              /\ IF res = "dup2"
                 THEN /\ Fail(stream, <<"failed to redirect ", stream, " to '", file, "': ", "errno">>)
                      /\ UNCHANGED <<redirected, opens, offset>>
                 ELSE /\ redirected' = redirected \cup {stream}
                      /\ opens' = [opens EXCEPT ![stream] =
                                      Some([path |-> file, flags |-> OpenFlags(rw),
                                            uid |-> dproc.uid, gid |-> dproc.gid,
                                            cwd |-> dproc.cwd])]
                      /\ offset' = [d \in DOMAIN offset |-> IF d = stream THEN 0 ELSE offset[d]]
                      /\ pc' = [pc EXCEPT !["daemon"] = AfterStep(stream)]
                      /\ UNCHANGED <<failed, prepErr>>
    /\ UNCHANGED <<privLog, resolved, dproc, pidfile>>
    /\ UNCHANGED forkVars
    /\ UNCHANGED callVars
    /\ UNCHANGED auxVars

RedirectStdin == Redirect("stdin", "/dev/null", "ReadOnly")

RedirectStdout == Redirect("stdout", cfg.stdout, "WriteOnly")

RedirectStderr == Redirect("stderr", cfg.stderr, "WriteOnly")

PrepareNext ==
    \/ PidfileCreate \/ Privileges \/ PrivilegesGet \/ Initgroups \/ Setgid
    \/ Setuid \/ SetEnvVars \/ Chdir \/ Umask
    \/ RedirectStdin \/ RedirectStdout \/ RedirectStderr

\* daemonize as it would be if the Err arm removed the pidfile it had written
PidfileOnErrRemoved(state) == IF state = "written" THEN "absent" ELSE state

\* Daemon::daemonize, Err arm: what becomes of the file at the pidfile path;
\* between eprintln! and exit(1) nothing touches it
PidfileOnErr(state) == state

\* Daemon::daemonize: if let Err(err) = self.prepare() { eprintln!; exit(1) }
DaemonizeErr ==
    /\ pc["daemon"] = "prepare_err"
    /\ LET r == OnPrepareErr(prepErr) IN
         /\ buf' = IF r.notify THEN buf \o prepErr ELSE buf
         /\ writes' = IF r.notify THEN Append(writes, prepErr) ELSE writes
         /\ Exit("daemon", r.code, <<r.line>>)
    /\ pidfile' = PidfileOnErr(pidfile)
    /\ UNCHANGED <<cfg, handle, readErr, calls, lastRet>>
    /\ UNCHANGED <<started, failed, prepErr, privLog, resolved, dproc, redirected>>
    /\ UNCHANGED fsVars
    /\ UNCHANGED auxVars

(***************************************************************************)
(* The payload: the caller's code after daemonize returned the handle      *)
(***************************************************************************)
\* Parent::notify(message)
NotifyCall(m) ==
    /\ pc["daemon"] = "payload"
    /\ handle.tag \in {"Some", "None"}
    /\ calls < MaxCalls
    /\ calls' = calls + 1
    /\ IF handle # None
       THEN /\ handle' = Take(handle)
            \* write_all: EPIPE when no process holds the read end; an empty
            \* buffer issues no write at all
            /\ IF rd = {} /\ m # <<>>
               THEN /\ lastRet' = "Err"
                    /\ UNCHANGED <<buf, writes>>
               ELSE /\ lastRet' = "Ok"
                    /\ buf' = buf \o m
                    /\ writes' = Append(writes, m)
            \* the File taken out of the Option is dropped when notify returns
            /\ wr' = IF handle' = None THEN DropFile("daemon", wr) ELSE wr
       ELSE /\ lastRet' = "Ok"
            /\ UNCHANGED <<handle, buf, writes, wr>>
    /\ UNCHANGED <<cfg, pc, exitCode, rd, out, readErr>>
    /\ UNCHANGED prepVars
    /\ UNCHANGED fsVars
    /\ UNCHANGED auxVars

Notify == \E m \in Msgs : NotifyCall(m)

\* Parent::success
Success == NotifyCall(SUCCESS)

\* the Parent value goes out of scope without a call having consumed it
DropHandle ==
    /\ pc["daemon"] = "payload"
    /\ handle.tag = "Some"
    /\ handle' = Dropped
    /\ wr' = wr \ {"daemon"}
    /\ UNCHANGED <<cfg, pc, exitCode, rd, buf, out, readErr>>
    /\ UNCHANGED prepVars
    /\ UNCHANGED callVars
    /\ UNCHANGED fsVars
    /\ UNCHANGED auxVars

\* the payload ends: main returns an ExitCode
PayloadExit ==
    /\ pc["daemon"] = "payload"
    /\ \E code \in {0, 1} : Exit("daemon", code, <<>>)
    /\ UNCHANGED <<cfg, buf, handle, readErr>>
    /\ UNCHANGED prepVars
    /\ UNCHANGED callVars
    /\ UNCHANGED fsVars
    /\ UNCHANGED auxVars

PayloadNext == Notify \/ Success \/ DropHandle \/ PayloadExit

OrigNext == PipeNew \/ Fork1 \/ ParentPipeRead \/ ReadEof

InterNext == ChildPipeWrite \/ Setsid \/ Fork2 \/ InterExit

Next ==
    \/ PipeNew \/ Fork1 \/ ParentPipeRead \/ ReadEof \/ ReadError
    \/ ChildPipeWrite \/ Setsid \/ Fork2 \/ InterExit
    \/ PidfileCreate \/ Privileges \/ PrivilegesGet \/ Initgroups \/ Setgid
    \/ Setuid \/ SetEnvVars \/ Chdir \/ Umask
    \/ RedirectStdin \/ RedirectStdout \/ RedirectStderr
    \/ DaemonizeErr
    \/ Notify \/ Success \/ DropHandle \/ PayloadExit

Spec == Init /\ [][Next]_vars

\* Every live process keeps running (the scheduler is fair to each of them),
\* and the payload does not keep the unconsumed handle open for ever.  A read
\* error is a fault, never something the scheduler owes.
Fairness ==
    /\ WF_vars(OrigNext)
    /\ WF_vars(InterNext)
    /\ WF_vars(PrepareNext \/ DaemonizeErr)
    /\ WF_vars(handle.tag = "Some" /\ PayloadNext)

FairSpec == Spec /\ Fairness

(***************************************************************************)
(* Writes of the payload through the redirected streams                    *)
(***************************************************************************)
\* longest content of a log file
MaxFileLen == 3

\* write(2) of one record through descriptor d: O_APPEND moves to the end of
\* the file first, otherwise the record goes to the descriptor's own offset;
\* a write to /dev/null is discarded
Write(d) ==
    /\ pc["daemon"] = "payload"
    /\ opens[d] # None
    /\ LET o == opens[d].val IN
         IF o.path \in LogPaths /\ files[o.path] # None
         THEN LET old == files[o.path].val
                  new == IF "O_APPEND" \in o.flags THEN Append(old, d)
                                                   ELSE WriteAt(old, offset[d], d)
              IN  /\ Len(old) < MaxFileLen
                  /\ files' = [files EXCEPT ![o.path] = Some(new)]
                  /\ offset' = [offset EXCEPT ![d] =
                                   IF "O_APPEND" \in o.flags THEN Len(new) ELSE @ + 1]
         ELSE UNCHANGED <<files, offset>>
    /\ UNCHANGED <<opens, cfg, pc, exitCode, rd, wr, buf, handle, out, readErr>>
    /\ UNCHANGED prepVars
    /\ UNCHANGED callVars
    /\ UNCHANGED auxVars

\* println! in the payload
WriteStdout == Write("stdout")

\* eprintln! in the payload
WriteStderr == Write("stderr")

\* prepare has reached the redirections (no pidfile, no identity drop asked
\* for); the log file may be there from an earlier run
StreamInit ==
    /\ cfg \in {c \in Configs : c.user = None /\ c.pidfile = None}
    /\ pc = [orig |-> "parent", inter |-> "exited", daemon |-> "stdin"]
    /\ exitCode = [orig |-> None, inter |-> Some(0), daemon |-> None]
    /\ rd = {"orig"}
    /\ wr = {"orig", "daemon"}
    /\ buf = <<>>
    /\ handle = Some("pipe")
    /\ out = [p \in Procs |-> <<>>]
    /\ readErr = FALSE
    /\ started = <<"chdir", "umask">>
    /\ failed = "none"
    /\ prepErr = <<>>
    /\ privLog = <<>>
    /\ resolved = None
    /\ dproc = [uid |-> 0, gid |-> 0, groups |-> {0},
                env |-> [USER |-> "root", HOME |-> "/root", SHELL |-> "/bin/sh"],
                cwd |-> cfg.workdir, umask |-> cfg.umask]
    /\ redirected = {}
    /\ pidfile = "absent"
    /\ calls = 0
    /\ writes = <<>>
    /\ lastRet = "none"
    /\ opens = [d \in Slots |-> None]
    /\ files \in [LogPaths -> {None, Some(<<>>), Some(<<"old">>)}]
    /\ offset = [d \in {"stdout", "stderr"} |-> 0]
    /\ lastSet = None
    /\ input = <<>>
    /\ parsed = None
    /\ session = [orig |-> "shell", inter |-> "inter", daemon |-> "inter"]
    /\ prev = <<>>

StreamNext ==
    \/ RedirectStdin \/ RedirectStdout \/ RedirectStderr
    \/ DaemonizeErr
    \/ WriteStdout \/ WriteStderr
    \/ PayloadExit

StreamSpec == StreamInit /\ [][StreamNext]_vars

(***************************************************************************)
(* daemon.rs: the builder, before daemonize consumes it                    *)
(***************************************************************************)
\* impl Default for Daemon
DaemonDefault ==
    [ user |-> None, stdout |-> "/dev/null", stderr |-> "/dev/null",
      pidfile |-> None, umask |-> DEFAULT_UMASK, workdir |-> "/" ]

\* Daemon::user: self.user = user.map(|user| user.into())
SetUser(d, arg) == [d EXCEPT !.user = arg]

\* Daemon::working_directory: unwrap_or(Path::new("/"))
SetWorkingDirectory(d, arg) ==
    [d EXCEPT !.workdir = IF arg = None THEN "/" ELSE arg.val]

\* Daemon::pidfile: self.pidfile = path.map(..)
SetPidfile(d, arg) == [d EXCEPT !.pidfile = arg]

\* Daemon::stdout as the builder of lib.rs has it: None leaves the field alone
SetStdoutKeep(d, arg) ==
    IF arg = None THEN d ELSE [d EXCEPT !.stdout = arg.val]

\* Daemon::stdout: unwrap_or_else(|| PathBuf::from("/dev/null"))
SetStdout(d, arg) ==
    [d EXCEPT !.stdout = IF arg = None THEN "/dev/null" ELSE arg.val]

\* Daemon::stderr as it would be if it assigned the stdout field
SetStderrIntoStdout(d, arg) ==
    [d EXCEPT !.stdout = IF arg = None THEN "/dev/null" ELSE arg.val]

\* Daemon::stderr: unwrap_or_else(|| PathBuf::from("/dev/null"))
SetStderr(d, arg) ==
    [d EXCEPT !.stderr = IF arg = None THEN "/dev/null" ELSE arg.val]

\* Daemon::umask: mode.unwrap_or(DEFAULT_UMASK)
SetUmask(d, arg) ==
    [d EXCEPT !.umask = IF arg = None THEN DEFAULT_UMASK ELSE arg.val]

\* Option<T> over a set of values
Opt(S) == {None} \cup {Some(v) : v \in S}

\* everything but the builder and the record of its last call
runVars == <<pc, exitCode, rd, wr, buf, handle, out, readErr, started, failed,
             prepErr, privLog, resolved, dproc, redirected, pidfile, calls,
             writes, lastRet, opens, files, offset, input, parsed, session, prev>>

\* one call of a setter on the builder
Call(setter, arg, d) ==
    /\ pc["orig"] = "start"
    /\ cfg' = d
    /\ lastSet' = Some([setter |-> setter, arg |-> arg])
    /\ UNCHANGED runVars

CallUser ==
    \E arg \in Opt([user : UserIds, group : Opt(GroupIds)]) :
        Call("user", arg, SetUser(cfg, arg))

CallWorkingDirectory ==
    \E arg \in Opt({"/", "work"}) :
        Call("workdir", arg, SetWorkingDirectory(cfg, arg))

CallPidfile ==
    \E arg \in Opt({"d.pid"}) : Call("pidfile", arg, SetPidfile(cfg, arg))

CallStdout ==
    \E arg \in Opt({"/dev/null", "out.log"}) : Call("stdout", arg, SetStdout(cfg, arg))

CallStderr ==
    \E arg \in Opt({"/dev/null", "out.log"}) : Call("stderr", arg, SetStderr(cfg, arg))

CallUmask ==
    \E arg \in Opt({DEFAULT_UMASK, 0}) : Call("umask", arg, SetUmask(cfg, arg))

\* Daemon::new()
BuilderInit ==
    /\ Init
    /\ cfg = DaemonDefault
    /\ pidfile = "absent"

BuilderNext ==
    \/ CallUser \/ CallWorkingDirectory \/ CallPidfile
    \/ CallStdout \/ CallStderr \/ CallUmask

BuilderSpec == BuilderInit /\ [][BuilderNext]_vars

(***************************************************************************)
(* lib.rs: the builder of the earlier crate root (user and group apart,     *)
(* borrowed paths); permissions, which writes user and group only, is left  *)
(* out                                                                     *)
(***************************************************************************)
\* fs::null()
FsNull == "/dev/null"

\* fs::root()
FsRoot == "/"

\* impl Default for Daemon<'a>
LibDefault ==
    [ user |-> None, group |-> None, stdout |-> FsNull, stderr |-> FsNull,
      pidfile |-> None, umask |-> DEFAULT_UMASK, workdir |-> FsRoot ]

\* Daemon::chdir: if let Some(workdir) = workdir { self.workdir = workdir }
LibChdir(d, arg) == IF arg = None THEN d ELSE [d EXCEPT !.workdir = arg.val]

\* Daemon::group: self.group = group.clone()
LibGroup(d, arg) == [d EXCEPT !.group = arg]

\* Daemon::pidfile: self.pidfile = pidfile
LibPidfile(d, arg) == [d EXCEPT !.pidfile = arg]

\* Daemon::stderr: if let Some(path) = path { self.stderr = path }
LibStderr(d, arg) == IF arg = None THEN d ELSE [d EXCEPT !.stderr = arg.val]

\* Daemon::stdout: if let Some(path) = path { self.stdout = path }
LibStdout(d, arg) == IF arg = None THEN d ELSE [d EXCEPT !.stdout = arg.val]

\* Daemon::umask: if let Some(mode) = mode { self.umask = mode }
LibUmask(d, arg) == IF arg = None THEN d ELSE [d EXCEPT !.umask = arg.val]

\* Daemon::user: self.user = user.clone()
LibUser(d, arg) == [d EXCEPT !.user = arg]

LibCallChdir ==
    \E arg \in Opt({"/", "work"}) : Call("chdir", arg, LibChdir(cfg, arg))

LibCallGroup ==
    \E arg \in Opt(GroupIds) : Call("group", arg, LibGroup(cfg, arg))

LibCallPidfile ==
    \E arg \in Opt({"d.pid"}) : Call("pidfile", arg, LibPidfile(cfg, arg))

LibCallStderr ==
    \E arg \in Opt({"/dev/null", "out.log"}) : Call("stderr", arg, LibStderr(cfg, arg))

LibCallStdout ==
    \E arg \in Opt({"/dev/null", "out.log"}) : Call("stdout", arg, LibStdout(cfg, arg))

LibCallUmask ==
    \E arg \in Opt({DEFAULT_UMASK, 0}) : Call("umask", arg, LibUmask(cfg, arg))

LibCallUser ==
    \E arg \in Opt(UserIds) : Call("user", arg, LibUser(cfg, arg))

\* Daemon::new() / options()
LibInit ==
    /\ cfg = LibDefault
    /\ pc = [p \in Procs |-> IF p = "orig" THEN "start" ELSE "none"]
    /\ exitCode = [p \in Procs |-> None]
    /\ rd = {}
    /\ wr = {}
    /\ buf = <<>>
    /\ handle = Unborn
    /\ out = [p \in Procs |-> <<>>]
    /\ readErr = FALSE
    /\ started = <<>>
    /\ failed = "none"
    /\ prepErr = <<>>
    /\ privLog = <<>>
    /\ resolved = None
    /\ dproc = [uid |-> 0, gid |-> 0, groups |-> {0},
                env |-> [USER |-> "root", HOME |-> "/root", SHELL |-> "/bin/sh"],
                cwd |-> "start", umask |-> 18]
    /\ redirected = {}
    /\ pidfile = "absent"
    /\ calls = 0
    /\ writes = <<>>
    /\ lastRet = "none"
    /\ opens = [d \in Slots |-> None]
    /\ files = [f \in LogPaths |-> None]
    /\ offset = [d \in {"stdout", "stderr"} |-> 0]
    /\ lastSet = None
    /\ input = <<>>
    /\ parsed = None
    /\ session = [orig |-> "shell", inter |-> "none", daemon |-> "none"]
    /\ prev = <<>>

LibNext ==
    \/ LibCallChdir \/ LibCallGroup \/ LibCallPidfile \/ LibCallStderr
    \/ LibCallStdout \/ LibCallUmask \/ LibCallUser

LibSpec == LibInit /\ [][LibNext]_vars

(***************************************************************************)
(* user.rs: the conversions from strings (a string is a sequence of chars)  *)
(***************************************************************************)
\* longest string of the enumerated inputs
MaxLen == 3

Digits == <<"0", "1", "2", "3", "4", "5", "6", "7", "8", "9">>

IsDigit(c) == \E i \in 1..10 : Digits[i] = c

\* char::to_digit(10)
DigitVal(c) == (CHOOSE i \in 1..10 : Digits[i] = c) - 1

\* result.checked_mul(10)?.checked_add(digit)? on a u32, the accumulator held
\* as two 16-bit halves; None on overflow of the 32 bits
CheckedStep(acc, d) ==
    LET lo == acc.lo * 10 + d
        hi == acc.hi * 10 + (lo \div 65536)
    IN  IF hi > 65535 THEN None ELSE Some([hi |-> hi, lo |-> lo % 65536])

RECURSIVE ParseDigits(_, _)
\* the digit loop of u32::from_str_radix
ParseDigits(s, acc) ==
    IF s = <<>> THEN Some(acc)
    ELSE IF ~IsDigit(Head(s)) THEN None
    ELSE LET r == CheckedStep(acc, DigitVal(Head(s)))
         IN  IF r = None THEN None ELSE ParseDigits(Tail(s), r.val)

\* str::parse::<u32>().ok(): empty, a lone sign, a non-digit and an overflow
\* are errors; one leading '+' is accepted
ParseU32(s) ==
    IF s = <<>> THEN None
    ELSE IF Head(s) = "+" /\ Len(s) = 1 THEN None
    ELSE ParseDigits(IF Head(s) = "+" THEN Tail(s) ELSE s, [hi |-> 0, lo |-> 0])

\* impl From<&str> for User
UserFrom(s) ==
    LET n == ParseU32(s)
    IN  IF n # None THEN [tag |-> "Uid", val |-> n.val]
                    ELSE [tag |-> "Name", val |-> s]

\* impl From<&str> for Group
GroupFrom(s) ==
    LET n == ParseU32(s)
    IN  IF n # None THEN [tag |-> "Gid", val |-> n.val]
                    ELSE [tag |-> "Name", val |-> s]

\* positions of the separator in s
Seps(s, sep) == {k \in 1..Len(s) : s[k] = sep}

RECURSIVE Split(_, _, _)
\* str::split as the builder of lib.rs uses it: a piece per separator
Split(n, sep, s) ==
    IF Seps(s, sep) = {} THEN <<s>>
    ELSE LET k == CHOOSE j \in Seps(s, sep) : \A l \in Seps(s, sep) : j <= l
         IN  <<SubSeq(s, 1, k - 1)>> \o Split(n, sep, SubSeq(s, k + 1, Len(s)))

RECURSIVE Splitn(_, _, _)
\* str::splitn: at most n pieces, the last one the rest of the string
Splitn(n, sep, s) ==
    IF n = 0 THEN <<>>
    ELSE IF n = 1 \/ Seps(s, sep) = {} THEN <<s>>
    ELSE LET k == CHOOSE j \in Seps(s, sep) : \A l \in Seps(s, sep) : j <= l
         IN  <<SubSeq(s, 1, k - 1)>> \o Splitn(n - 1, sep, SubSeq(s, k + 1, Len(s)))

\* impl From<&str> for Privileges
PrivilegesFrom(s) ==
    LET values == Splitn(2, ":", s)
    IN  [ user  |-> UserFrom(values[1]),
          group |-> IF Len(values) >= 2 THEN Some(GroupFrom(values[2])) ELSE None ]

Alphabet == {"0", "7", "w", ":", "+"}

\* the strings of at most n chars
Strings(n) == UNION {[1..k -> Alphabet] : k \in 0..n}

\* strings around the width of uid_t and with several colons
LongInputs ==
    { <<"4","2","9","4","9","6","7","2","9","5">>,
      <<"4","2","9","4","9","6","7","2","9","6">>,
      <<"0","0","4","2","9","4","9","6","7","2","9","6">>,
      <<"0","0","0","0","0","0","0","0","0","0","0","7">>,
      <<"9","9","9","9","9","9","9","9","9","9","9">>,
      <<"w","w","w",":","a","d","m">>,
      <<"3","3",":","4">>,
      <<"w",":","a",":","d",":","m">>,
      <<"3","3",":","6","5","5","3","6",":","0">> }

Inputs == Strings(MaxLen) \cup LongInputs

\* one conversion of a string
Convert(fn, s, v) ==
    /\ pc["orig"] = "start"
    /\ input' = s
    /\ parsed' = Some([fn |-> fn, val |-> v])
    /\ UNCHANGED <<cfg, lastSet, pc, exitCode, rd, wr, buf, handle, out, readErr,
                   started, failed, prepErr, privLog, resolved, dproc,
                   redirected, pidfile, calls, writes, lastRet, opens, files,
                   offset, session, prev>>

ConvertUser == \E s \in Inputs : Convert("User", s, UserFrom(s))

ConvertGroup == \E s \in Inputs : Convert("Group", s, GroupFrom(s))

ConvertPrivileges == \E s \in Inputs : Convert("Privileges", s, PrivilegesFrom(s))

ParseInit ==
    /\ Init
    /\ cfg = DaemonDefault
    /\ pidfile = "absent"

ParseNext == ConvertUser \/ ConvertGroup \/ ConvertPrivileges

ParseSpec == ParseInit /\ [][ParseNext]_vars

(***************************************************************************)
(* The handle of a run that never forked                                   *)
(***************************************************************************)
\* Parent::default(): no pipe and no other process; the caller's code runs in
\* the one process there is, kept in the payload's slot
FgInit ==
    /\ cfg = DaemonDefault
    /\ pc = [orig |-> "none", inter |-> "none", daemon |-> "payload"]
    /\ exitCode = [p \in Procs |-> None]
    /\ rd = {}
    /\ wr = {}
    /\ buf = <<>>
    /\ handle = None
    /\ out = [p \in Procs |-> <<>>]
    /\ readErr = FALSE
    /\ started = <<>>
    /\ failed = "none"
    /\ prepErr = <<>>
    /\ privLog = <<>>
    /\ resolved = None
    /\ dproc = [uid |-> 0, gid |-> 0, groups |-> {0},
                env |-> [USER |-> "root", HOME |-> "/root", SHELL |-> "/bin/sh"],
                cwd |-> "start", umask |-> 18]
    /\ redirected = {}
    /\ pidfile = "absent"
    /\ calls = 0
    /\ writes = <<>>
    /\ lastRet = "none"
    /\ opens = [d \in Slots |-> None]
    /\ files = [f \in LogPaths |-> None]
    /\ offset = [d \in {"stdout", "stderr"} |-> 0]
    /\ lastSet = None
    /\ input = <<>>
    /\ parsed = None
    /\ session = [orig |-> "shell", inter |-> "none", daemon |-> "shell"]
    /\ prev = <<>>

\* a handle from daemonize or from Parent::default
HandleSpec == (Init \/ FgInit) /\ [][Next]_vars

(***************************************************************************)
(* One run after another with the same configuration                       *)
(***************************************************************************)
\* runs of daemonize in a row
MaxRuns == 2

\* a following daemonize, once every process of the run before has ended: new
\* processes and a new pipe; the file system stays as the run left it
Rerun ==
    /\ pc["orig"] = "exited"
    /\ pc["inter"] \in {"none", "exited"}
    /\ pc["daemon"] \in {"none", "exited"}
    /\ Len(prev) + 1 < MaxRuns
    /\ prev' = Append(prev, failed)
    /\ pidfile' = IF pidfile = "absent" THEN "absent" ELSE "stale"
    /\ pc' = [p \in Procs |-> IF p = "orig" THEN "start" ELSE "none"]
    /\ exitCode' = [p \in Procs |-> None]
    /\ rd' = {}
    /\ wr' = {}
    /\ buf' = <<>>
    /\ handle' = Unborn
    /\ out' = [p \in Procs |-> <<>>]
    /\ readErr' = FALSE
    /\ started' = <<>>
    /\ failed' = "none"
    /\ prepErr' = <<>>
    /\ privLog' = <<>>
    /\ resolved' = None
    /\ dproc' = [uid |-> 0, gid |-> 0, groups |-> {0},
                 env |-> [USER |-> "root", HOME |-> "/root", SHELL |-> "/bin/sh"],
                 cwd |-> "start", umask |-> 18]
    /\ redirected' = {}
    /\ calls' = 0
    /\ writes' = <<>>
    /\ lastRet' = "none"
    /\ opens' = [d \in Slots |-> None]
    /\ offset' = [d \in {"stdout", "stderr"} |-> 0]
    /\ session' = [orig |-> "shell", inter |-> "none", daemon |-> "none"]
    /\ UNCHANGED <<cfg, files, lastSet, input, parsed>>

\* the first run: a pidfile is configured and no file is at its path
RerunInit ==
    /\ Init
    /\ cfg.pidfile # None
    /\ pidfile = "absent"

RerunSpec == RerunInit /\ [][Next \/ Rerun]_vars

(***************************************************************************)
(* Properties                                                              *)
(***************************************************************************)
Last(seq) == seq[Len(seq)]

IsPrefix(a, b) == Len(a) <= Len(b) /\ a = SubSeq(b, 1, Len(a))

\* the original process got past the first fork and left through Child::wait
\* after read() returned Ok
WaitReturned == pc["orig"] = "exited" /\ pc["inter"] # "none" /\ ~readErr

GenericLine == <<"daemon failed to start">>

\* C1: the original process exits 0 exactly when the one message written and
\* closed on the channel is the success sentinel "OK", and it then has printed
\* nothing; no other path of the original process ends with code 0.
C1_SuccessExitsZero ==
    /\ exitCode["orig"] = Some(0) =>
         /\ WaitReturned
         /\ writes = <<SUCCESS>>
         /\ buf = SUCCESS
         /\ wr = {}
         /\ out["orig"] = <<>>
    /\ (WaitReturned /\ writes = <<SUCCESS>>) =>
         /\ exitCode["orig"] = Some(0)
         /\ out["orig"] = <<>>

C1_Witness ==
    /\ exitCode["orig"] = Some(0)
    /\ calls >= 1
    /\ writes = <<SUCCESS>>

\* C2 as stated: when a step of prepare fails, its error message is written
\* once to the channel and the daemon exits nonzero.
C2_ErrorDeliveredThroughChannel ==
    (failed # "none" /\ pc["daemon"] = "exited") =>
        /\ writes = <<prepErr>>
        /\ exitCode["daemon"] # Some(0)

\* C2 amended: when a step of prepare fails, its error message is printed once
\* on the daemon's own standard error, nothing is written to the channel, the
\* daemon exits with code 1, and the original process, reading an empty
\* channel, prints the generic diagnostic and exits with code 1.
C2_ErrorPrintedByDaemon ==
    (failed # "none" /\ pc["daemon"] = "exited") =>
        /\ exitCode["daemon"] = Some(1)
        /\ out["daemon"] = <<prepErr>>
        /\ prepErr # <<>>
        /\ writes = <<>>
        /\ buf = <<>>
        /\ WaitReturned =>
             /\ exitCode["orig"] = Some(1)
             /\ out["orig"] = <<GenericLine>>

C2_Witness ==
    /\ failed = "chdir"
    /\ pc["daemon"] = "exited"
    /\ WaitReturned

\* C3: when end-of-stream arrives and no byte was written (handle dropped,
\* daemon exited, or notify called with the empty message), the original
\* process exits 1 and prints the generic "daemon failed to start".
C3_EmptyChannelGenericFailure ==
    (WaitReturned /\ buf = <<>>) =>
        /\ exitCode["orig"] = Some(1)
        /\ out["orig"] = <<GenericLine>>

C3_Witness ==
    /\ WaitReturned
    /\ writes = << <<>> >>
    /\ buf = <<>>
    /\ failed = "none"

\* C4 as stated: a non-empty, non-sentinel message written by notify makes
\* the original process exit 1 and print exactly that message.
C4_PrintsExactlyMessage ==
    (WaitReturned /\ Len(writes) = 1 /\ writes[1] \notin {<<>>, SUCCESS}) =>
        /\ exitCode["orig"] = Some(1)
        /\ out["orig"] = <<writes[1]>>

\* C4 amended: a non-empty, non-sentinel message written by notify makes the
\* original process exit 1 and print one line, "daemon failed to start: "
\* followed by exactly that message.
C4_PrintsPrefixedMessage ==
    (WaitReturned /\ Len(writes) = 1 /\ writes[1] \notin {<<>>, SUCCESS}) =>
        /\ exitCode["orig"] = Some(1)
        /\ out["orig"] = << <<"daemon failed to start: ">> \o writes[1] >>

C4_Witness ==
    /\ WaitReturned
    /\ writes = << <<"e", "r">> >>

\* C5: of any sequence of notify/success calls on one handle only the first
\* writes and closes the channel; later calls write nothing and return Ok, so
\* at most one message is ever written.
C5_AtMostOneWrite ==
    /\ Len(writes) <= 1
    /\ buf = (IF writes = <<>> THEN <<>> ELSE writes[1])
    /\ calls >= 1 => (handle = None /\ "daemon" \notin wr)
    /\ calls >= 2 => lastRet = "Ok"

C5_Witness ==
    /\ calls = 2
    /\ writes = << <<"O">> >>
    /\ lastRet = "Ok"

\* the order section 4.4 gives for the privilege drop, after resolution
DocumentedDrop == <<"get", "initgroups", "setgid", "setuid", "set_env">>

\* the order the documentation of daemonize gives
DocumentedOrder == <<"pidfile", "privileges", "chdir", "umask", "stdin", "stdout", "stderr">>

\* a step the configuration asks for: the pidfile and the privilege drop are optional
Configured(s) ==
    /\ s = "pidfile" => cfg.pidfile # None
    /\ s = "privileges" => cfg.user # None

Range(seq) == {seq[i] : i \in DOMAIN seq}

\* C6: the daemon applies the configuration in the order pidfile, privilege
\* drop, working directory, umask, stdin, stdout, stderr; a step starts only
\* after every earlier step succeeded, and the failing step is the last one.
C6_PrepareOrder ==
    /\ IsPrefix(started, SelectSeq(DocumentedOrder, Configured))
    /\ failed # "none" => (started # <<>> /\ Last(started) = failed)
    /\ pc["daemon"] = "payload" =>
         (failed = "none" /\ started = SelectSeq(DocumentedOrder, Configured))
    /\ \A i \in DOMAIN started :
         (i < Len(started) \/ (failed = "none" /\ pc["daemon"] # started[i])) =>
            /\ started[i] = "pidfile" => pidfile = "written"
            /\ started[i] = "privileges" =>
                 (pc["daemon"] \notin Range(DocumentedDrop) => Last(privLog) = "set_env")
            /\ started[i] = "chdir" => dproc.cwd = cfg.workdir
            /\ started[i] = "umask" => dproc.umask = cfg.umask
            /\ started[i] \in {"stdin", "stdout", "stderr"} => started[i] \in redirected

C6_Witness ==
    /\ cfg.pidfile # None
    /\ cfg.user # None
    /\ failed = "stdout"
    /\ pc["daemon"] = "exited"
    /\ started = <<"pidfile", "privileges", "chdir", "umask", "stdin", "stdout">>

\* the text of an identity as it appears in a message
IdText(i) == IF i.tag = "Name" THEN i.val ELSE ToString(i.val)

\* the names an error of drop_privileges may carry: the requested identities
\* (the user's primary group id when no group was requested) and the names of
\* the resolved records
IdentityNames ==
    {IdText(cfg.user.val.user)}
    \cup (IF cfg.user.val.group # None
          THEN {IdText(cfg.user.val.group.val)}
          ELSE {ToString(u.gid) : u \in {r \in PasswdDb : IdText(cfg.user.val.user) \in {r.name, ToString(r.uid)}}})
    \cup (IF resolved # None THEN {resolved.user.name, resolved.group.name} ELSE {})

\* C7: drop_privileges resolves, then calls initgroups, setgid, setuid and
\* set_env in this order; the gid changes before the uid; a failing step is the
\* last one performed, leaves USER/HOME/SHELL untouched and returns an error
\* naming the identity.
C7_DropOrder ==
    /\ IsPrefix(privLog, DocumentedDrop)
    /\ dproc.uid # 0 => ("setgid" \in Range(privLog) /\ dproc.gid = resolved.group.gid)
    /\ dproc.env.USER # "root" =>
         (privLog = DocumentedDrop /\ dproc.uid = resolved.user.uid
          /\ dproc.env = [USER |-> resolved.user.name, HOME |-> resolved.user.dir,
                          SHELL |-> resolved.user.shell])
    /\ failed = "privileges" =>
         /\ privLog # <<>>
         /\ "set_env" \notin Range(privLog)
         /\ dproc.env = [USER |-> "root", HOME |-> "/root", SHELL |-> "/bin/sh"]
         /\ Last(privLog) \in {"get", "initgroups"} => (dproc.gid = 0 /\ dproc.uid = 0)
         /\ Last(privLog) = "initgroups" => dproc.groups = {0}
         /\ Last(privLog) = "setgid" => (dproc.gid = 0 /\ dproc.uid = 0)
         /\ Last(privLog) = "setuid" => dproc.uid = 0
         /\ \E i \in DOMAIN prepErr : prepErr[i] \in IdentityNames

C7_Witness ==
    /\ failed = "privileges"
    /\ privLog = <<"get", "initgroups", "setgid", "setuid">>
    /\ dproc.gid = 4
    /\ dproc.uid = 0
    /\ pc["daemon"] = "exited"

Alive(p) == pc[p] \notin {"none", "exited"}

\* C8: once the caller has signalled success the original and the
\* intermediate process both exit, and when the original process has exited
\* with code 0 the daemon is the only process left: the intermediate process
\* has exited with code 0 and the daemon is in (or has itself ended) the payload.
C8_OnlyDaemonRemains ==
    /\ [](exitCode["orig"] = Some(0) =>
            /\ {p \in Procs : Alive(p)} \subseteq {"daemon"}
            /\ exitCode["inter"] = Some(0)
            /\ pc["daemon"] \in {"payload", "exited"}
            /\ failed = "none")
    /\ (writes = <<SUCCESS>>) ~> (~Alive("orig") /\ ~Alive("inter"))

C8_Witness ==
    /\ exitCode["orig"] = Some(0)
    /\ pc["inter"] = "exited"
    /\ pc["daemon"] = "payload"

\* C9: once daemonize has been called the original process eventually
\* terminates with exit code 0 or 1.
C9_OriginalTerminates ==
    <>(pc["orig"] = "exited" /\ exitCode["orig"] \in {Some(0), Some(1)})

C9_Witness ==
    /\ WaitReturned
    /\ exitCode["orig"] = Some(1)
    /\ exitCode["inter"] = Some(1)
    /\ pc["daemon"] = "none"

\* C10: while it reads, the original process holds the read end only; past
\* pipe.write() the intermediate process holds the write end only and nobody
\* but the original process holds a read end; once the intermediate process
\* has exited, the only write end left is the daemon's unconsumed handle, so
\* end-of-stream is there exactly when the daemon consumed or dropped the
\* handle or exited.
C10_PipeOwnership ==
    /\ pc["orig"] = "reading" => ("orig" \in rd /\ "orig" \notin wr)
    /\ pc["inter"] \in {"setsid", "fork2", "forked"} =>
         ("inter" \in wr /\ "inter" \notin rd)
    /\ pc["inter"] \notin {"none", "child"} => rd \subseteq {"orig"}
    /\ "daemon" \in wr <=> (Alive("daemon") /\ handle.tag = "Some")
    /\ (pc["orig"] = "reading" /\ pc["inter"] = "exited") =>
         /\ wr \subseteq {"daemon"}
         /\ wr = {} <=> (~Alive("daemon") \/ handle.tag # "Some")

C10_Witness ==
    /\ pc["orig"] = "reading"
    /\ pc["inter"] = "exited"
    /\ pc["daemon"] = "payload"
    /\ wr = {"daemon"}
    /\ rd = {"orig"}

\* C11: in the builder of daemon.rs a setter called with None leaves its field
\* at the documented default (no user, "/", no pidfile, "/dev/null",
\* "/dev/null", 027), whatever was set before; called with Some(v) it leaves v.
C11_SetterDefaults ==
    lastSet # None =>
        LET f == lastSet.val.setter
            a == lastSet.val.arg
        IN  /\ f = "user"    => cfg.user = a
            /\ f = "pidfile" => cfg.pidfile = a
            /\ f = "workdir" => cfg.workdir = (IF a = None THEN "/" ELSE a.val)
            /\ f = "stdout"  => cfg.stdout = (IF a = None THEN "/dev/null" ELSE a.val)
            /\ f = "stderr"  => cfg.stderr = (IF a = None THEN "/dev/null" ELSE a.val)
            /\ f = "umask"   => cfg.umask = (IF a = None THEN 23 ELSE a.val)

C11_Witness ==
    /\ lastSet = Some([setter |-> "stdout", arg |-> None])
    /\ cfg.stdout = "/dev/null"
    /\ cfg.stderr = "out.log"
    /\ cfg.umask = 0
    /\ cfg.user # None

\* C12: every identity string that consists only of decimal digits, of any
\* length and value, converts to the numeric-id variant, never to the name
\* variant (User::from and Group::from).
C12_DigitsYieldNumericId ==
    (/\ parsed # None
     /\ parsed.val.fn \in {"User", "Group"}
     /\ input # <<>>
     /\ \A k \in 1..Len(input) : IsDigit(input[k]))
    => parsed.val.val.tag = (IF parsed.val.fn = "User" THEN "Uid" ELSE "Gid")

\* C13: "<name>:<group>" converts to the user User::from(name) and the group
\* Some(Group::from(group)), the split being at the first colon only; a string
\* without a colon converts to User::from of the whole string and no group.
C13_SplitAtFirstColon ==
    (parsed # None /\ parsed.val.fn = "Privileges") =>
        LET p == parsed.val.val
        IN  /\ (\A k \in 1..Len(input) : input[k] # ":") =>
                    /\ p.user = UserFrom(input)
                    /\ p.group = None
            /\ \A k \in 1..Len(input) :
                    (input[k] = ":" /\ \A j \in 1..(k - 1) : input[j] # ":") =>
                        /\ p.user = UserFrom(SubSeq(input, 1, k - 1))
                        /\ p.group = Some(GroupFrom(SubSeq(input, k + 1, Len(input))))

C13_Witness ==
    /\ parsed # None
    /\ parsed.val.fn = "Privileges"
    /\ input = <<"w", ":", "a", ":", "d", ":", "m">>
    /\ parsed.val.val.user = [tag |-> "Name", val |-> <<"w">>]
    /\ parsed.val.val.group = Some([tag |-> "Name", val |-> <<"a", ":", "d", ":", "m">>])

\* C14: Privileges::get and drop_privileges use the explicit group when one is
\* given (the process's gid becomes that group's id, not the user's primary
\* gid), and otherwise the group whose id is the user's primary gid.
C14_ExplicitGroupWins ==
    (cfg.user # None /\ resolved # None) =>
        LET want == cfg.user.val.group
            ids  == {resolved.group.gid} \cup {g.gid : g \in {x \in GroupDb : resolved.user.name \in x.mem}}
        IN  /\ want = None => resolved.group.gid = resolved.user.gid
            /\ (want # None /\ want.val.tag = "Gid") => resolved.group.gid = want.val.val
            /\ (want # None /\ want.val.tag = "Name") => resolved.group.name = want.val.val
            /\ "setgid" \in Range(privLog) => dproc.groups = ids
            /\ "setuid" \in Range(privLog) => dproc.gid = resolved.group.gid

C14_Witness ==
    /\ cfg.user # None
    /\ cfg.user.val.group = Some([tag |-> "Gid", val |-> 4])
    /\ resolved # None
    /\ resolved.user.gid = 33
    /\ pc["daemon"] = "payload"
    /\ dproc.gid = 4
    /\ dproc.uid = 33

\* the state a failed exclusive create leaves behind
PidfileBlocked ==
    (pidfile = "stale" /\ "pidfile" \in Range(started)) =>
        /\ failed = "pidfile"
        /\ Last(prepErr) = "already exists"
        /\ pc["daemon"] \in {"prepare_err", "exited"}
        /\ started = <<"pidfile">>
        /\ privLog = <<>>
        /\ resolved = None
        /\ dproc.uid = 0 /\ dproc.gid = 0
        /\ dproc.cwd = "start"
        /\ dproc.umask = 18
        /\ redirected = {}
        /\ \A d \in Slots : opens[d] = None
        /\ \A f \in LogPaths : files[f] = None

\* C15: with a file already at the pidfile path the creation fails with an
\* "already exists" error, the file stays as it was, and none of the later
\* steps (privilege drop, chdir, umask, redirection) is performed.
C15_ExistingPidfileBlocks ==
    [][(pidfile = "stale" => pidfile' = "stale") /\ PidfileBlocked']_vars

C15_Witness ==
    /\ pidfile = "stale"
    /\ failed = "pidfile"
    /\ cfg.user # None
    /\ cfg.stdout = "out.log"
    /\ pc["daemon"] = "exited"
    /\ exitCode["daemon"] = Some(1)

\* C16: the pidfile is created with the identity and the working directory the
\* process started with; stdout and stderr are opened after the change of
\* directory, relative to the configured working directory, and with the
\* identity the privilege drop left.
C16_PidfileBeforeDropAndChdir ==
    /\ opens["pidfile"] # None =>
         /\ opens["pidfile"].val.uid = 0
         /\ opens["pidfile"].val.gid = 0
         /\ opens["pidfile"].val.cwd = "start"
         /\ opens["pidfile"].val.path = cfg.pidfile.val
    /\ \A d \in {"stdout", "stderr"} :
         opens[d] # None =>
            /\ opens[d].val.cwd = cfg.workdir
            /\ opens[d].val.path = cfg[d]
            /\ cfg.user # None =>
                 /\ opens[d].val.uid = resolved.user.uid
                 /\ opens[d].val.gid = resolved.group.gid
            /\ cfg.user = None =>
                 /\ opens[d].val.uid = 0
                 /\ opens[d].val.gid = 0

C16_Witness ==
    /\ opens["pidfile"] # None
    /\ opens["pidfile"].val.uid = 0
    /\ opens["pidfile"].val.cwd = "start"
    /\ opens["stderr"] # None
    /\ opens["stderr"].val.path = "out.log"
    /\ opens["stderr"].val.uid = 33
    /\ opens["stderr"].val.gid = 4
    /\ opens["stderr"].val.cwd = "work"

\* daemonize returned the handle to the caller in the daemon
DaemonizeReturned ==
    \/ pc["daemon"] = "payload"
    \/ pc["daemon"] = "exited" /\ failed = "none"

\* C17: with no identity drop requested, once daemonize has returned the
\* daemon's working directory is the configured one and its umask the
\* configured one ("/" and 027 for the default configuration).
C17_WorkdirAndUmaskApplied ==
    (cfg.user = None /\ DaemonizeReturned) =>
        /\ dproc.cwd = cfg.workdir
        /\ dproc.umask = cfg.umask
        /\ cfg = DaemonDefault => (dproc.cwd = "/" /\ dproc.umask = 23)

C17_Witness ==
    /\ cfg.user = None
    /\ pc["daemon"] = "payload"
    /\ cfg.workdir = "work"
    /\ cfg.umask = 0
    /\ dproc.cwd = "work"
    /\ dproc.umask = 0

\* a record went through one of the two streams in this step
Wrote(d) == pc["daemon"] = "payload" /\ offset'[d] # offset[d]

\* C18: with stdout and stderr redirected to the same path both streams append
\* to the one file: no open truncates it, and what was in the file before the
\* redirection and what is written through either stream afterwards all stays.
C18_SamePathAppends ==
    [][(cfg.stdout = cfg.stderr /\ cfg.stdout \in LogPaths) =>
         LET p == cfg.stdout IN
         /\ files[p] # None =>
              /\ files'[p] # None
              /\ IsPrefix(files[p].val, files'[p].val)
         /\ \A d \in {"stdout", "stderr"} :
              /\ opens'[d] # None =>
                   /\ opens'[d].val.path = p
                   /\ "O_APPEND" \in opens'[d].val.flags
                   /\ "O_TRUNC" \notin opens'[d].val.flags
                   /\ files'[p] # None
              /\ Wrote(d) => files'[p].val = Append(files[p].val, d)]_vars

C18_Witness ==
    /\ cfg.stdout = "out.log"
    /\ cfg.stderr = "out.log"
    /\ files["out.log"] = Some(<<"old", "stderr", "stdout">>)

\* the run whose handle came from Parent::default
Foreground == pc["orig"] = "none"

\* C19: is_waiting is true exactly while the handle holds the open write end:
\* true when daemonize returns, false after the first notify or success, and
\* always false for Parent::default, on which notify and success write nothing
\* and return Ok.
C19_IsWaiting ==
    (pc["daemon"] = "payload" /\ handle.tag \in {"Some", "None"}) =>
        /\ IsWaiting(handle) <=> "daemon" \in wr
        /\ (~Foreground /\ calls = 0) => IsWaiting(handle)
        /\ calls >= 1 => ~IsWaiting(handle)
        /\ Foreground =>
             /\ ~IsWaiting(handle)
             /\ writes = <<>>
             /\ buf = <<>>
             /\ calls >= 1 => lastRet = "Ok"

C19_Witness ==
    /\ Foreground
    /\ pc["daemon"] = "payload"
    /\ calls = 2
    /\ lastRet = "Ok"
    /\ ~IsWaiting(handle)
    /\ writes = <<>>

\* the intermediate process ended without a daemon process having been made
ChildFailed == pc["inter"] = "exited" /\ pc["daemon"] = "none"

\* C20: when setsid or the second fork fails, the failing process prints one
\* diagnostic and exits 1 without writing to the channel, no daemon process
\* (and no handle) comes to be, and the original process, reading an empty
\* channel, exits 1.
C20_ChildFailureExitsOne ==
    ChildFailed =>
        /\ exitCode["inter"] = Some(1)
        /\ Len(out["inter"]) = 1
        /\ out["inter"][1] \in
             { <<"already process group leader">>,
               <<"failed to fork off for the second time: ", "errno">> }
        /\ buf = <<>>
        /\ writes = <<>>
        /\ handle = Unborn
        /\ exitCode["daemon"] = None
        /\ started = <<>>
        /\ "inter" \notin wr
        /\ WaitReturned =>
             /\ exitCode["orig"] = Some(1)
             /\ out["orig"] = <<GenericLine>>

C20_Witness ==
    /\ ChildFailed
    /\ out["inter"] = << <<"already process group leader">> >>
    /\ WaitReturned
    /\ exitCode["orig"] = Some(1)
    /\ out["orig"] = <<GenericLine>>

\* C21: the intermediate process exits 0 right after the second fork, whatever
\* becomes of the daemon, and the process daemonize returns in is no session
\* leader: its session is the one the intermediate process made with setsid.
C21_InterExitsZeroDaemonNotLeader ==
    /\ (pc["inter"] = "exited" /\ pc["daemon"] # "none") =>
          /\ exitCode["inter"] = Some(0)
          /\ out["inter"] = <<>>
    /\ pc["inter"] = "forked" => pc["daemon"] # "none"
    /\ (~Foreground /\ pc["daemon"] # "none") =>
          /\ session["daemon"] = "inter"
          /\ session["daemon"] # "daemon"
          /\ session["inter"] = "inter"
          /\ session["orig"] = "shell"

C21_Witness ==
    /\ pc["daemon"] = "exited"
    /\ failed = "stdout"
    /\ exitCode["daemon"] = Some(1)
    /\ exitCode["inter"] = Some(0)
    /\ session["daemon"] = "inter"

\* C22: whenever a step of the setup fails in the daemon, its standard error
\* is not yet redirected at the moment the diagnostic is printed; this holds
\* for every step that can fail, the stderr redirection itself and a failure
\* after stdout was redirected included.
C22_DiagnosticBeforeStderrRedirect ==
    [][(pc["daemon"] = "prepare_err" /\ out'["daemon"] # out["daemon"]) =>
         /\ failed # "none"
         /\ Last(out'["daemon"]) = prepErr
         /\ "stderr" \notin redirected
         /\ opens["stderr"] = None
         /\ failed = "stderr" => "stdout" \in redirected]_vars

C22_Witness ==
    /\ pc["daemon"] = "exited"
    /\ failed = "stderr"
    /\ cfg.stdout = "out.log"
    /\ "stdout" \in redirected
    /\ "stderr" \notin redirected
    /\ out["daemon"] = <<prepErr>>

\* C23: in the builder of lib.rs, chdir, stdout, stderr or umask called with
\* an absent value restores the field to its documented default ("/", the
\* null device, the null device, 027), whatever an earlier call had set.
C23_LibNoneRestoresDefault ==
    (lastSet # None /\ lastSet.val.arg = None) =>
        LET f == lastSet.val.setter
        IN  /\ f = "chdir"  => cfg.workdir = "/"
            /\ f = "stdout" => cfg.stdout = "/dev/null"
            /\ f = "stderr" => cfg.stderr = "/dev/null"
            /\ f = "umask"  => cfg.umask = 23

\* C24: when reading the channel fails with an I/O error, the original process
\* prints a diagnostic and exits 1, whatever bytes it had received: after a
\* read error it never exits 0.
C24_ReadErrorExitsOne ==
    readErr =>
        /\ pc["orig"] = "exited"
        /\ exitCode["orig"] = Some(1)
        /\ out["orig"] = << <<"failed to read message from daemon process: ", "errno">> >>

C24_Witness ==
    /\ readErr
    /\ buf = SUCCESS
    /\ writes = <<SUCCESS>>
    /\ exitCode["orig"] = Some(1)

\* C25: the original process exits 0 only if every configuration step of
\* Daemon::prepare succeeded in the daemon; a daemon whose setup failed never
\* gets the handle, so it never causes exit code 0.
C25_ExitZeroNeedsPrepareOk ==
    /\ exitCode["orig"] = Some(0) =>
         /\ failed = "none"
         /\ prepErr = <<>>
         /\ started = SelectSeq(DocumentedOrder, Configured)
         /\ redirected = {"stdin", "stdout", "stderr"}
         /\ dproc.cwd = cfg.workdir
         /\ dproc.umask = cfg.umask
         /\ cfg.pidfile # None => pidfile = "written"
         /\ cfg.user # None =>
              /\ dproc.uid = resolved.user.uid
              /\ dproc.gid = resolved.group.gid
    /\ failed # "none" =>
         /\ pc["daemon"] \in {"prepare_err", "exited"}
         /\ calls = 0
         /\ writes = <<>>
         /\ buf = <<>>
         /\ pc["orig"] = "exited" => exitCode["orig"] = Some(1)

C25_Witness ==
    /\ exitCode["orig"] = Some(0)
    /\ cfg.user # None
    /\ cfg.pidfile # None
    /\ cfg.stdout = "out.log"
    /\ started = <<"pidfile", "privileges", "chdir", "umask", "stdin", "stdout", "stderr">>

\* C26: when the pidfile was created and a later step of the setup fails, the
\* daemon exits without removing the pidfile, so a following daemonize with
\* the same pidfile path fails at the creation of the pidfile.
C26_PidfileLeftBehind ==
    /\ ("pidfile" \in Range(started) /\ failed \notin {"none", "pidfile"}) =>
          pidfile = "written"
    /\ (\E i \in DOMAIN prev : prev[i] \notin {"none", "pidfile"}) =>
          /\ pidfile = "stale"
          /\ pc["daemon"] \in {"none", "pidfile", "prepare_err", "exited"}
          /\ pc["daemon"] \in {"prepare_err", "exited"} =>
               /\ failed = "pidfile"
               /\ started = <<"pidfile">>
               /\ Last(prepErr) = "already exists"
          /\ exitCode["daemon"] \in {None, Some(1)}
          /\ exitCode["orig"] # Some(0)

C26_Witness ==
    /\ prev = <<"stderr">>
    /\ pidfile = "stale"
    /\ failed = "pidfile"
    /\ Last(prepErr) = "already exists"
    /\ exitCode["daemon"] = Some(1)
    /\ exitCode["orig"] = Some(1)

\* C27: a notify whose write fails still consumes the handle: when it returns
\* Err the write end is closed and is_waiting is false, every later notify or
\* success is a no-op returning Ok, and the failed message is never written.
C27_FailedWriteConsumesHandle ==
    [][/\ (calls' > calls /\ lastRet' = "Err") =>
            /\ IsWaiting(handle)
            /\ handle' = None
            /\ ~IsWaiting(handle')
            /\ "daemon" \notin wr'
            /\ writes' = writes
            /\ buf' = buf
       /\ (calls' > calls /\ (lastRet = "Err" \/ handle = None)) =>
            /\ lastRet' = "Ok"
            /\ handle' = None
            /\ writes' = writes
            /\ buf' = buf
            /\ wr' = wr]_vars

C27_Witness ==
    /\ ~Foreground
    /\ pc["daemon"] = "payload"
    /\ calls = 2
    /\ lastRet = "Ok"
    /\ handle = None
    /\ writes = <<>>
    /\ "daemon" \notin wr

\* the fields of the builder, named as the calls are recorded
Fields == {"user", "workdir", "pidfile", "stdout", "stderr", "umask"}

\* the arguments each setter is called with
ArgsOf(f) ==
    CASE f = "user"    -> Opt([user : UserIds, group : Opt(GroupIds)])
      [] f = "workdir" -> Opt({"/", "work"})
      [] f = "pidfile" -> Opt({"d.pid"})
      [] f = "stdout"  -> Opt({"/dev/null", "out.log"})
      [] f = "stderr"  -> Opt({"/dev/null", "out.log"})
      [] f = "umask"   -> Opt({DEFAULT_UMASK, 0})

\* the setter of field f applied to builder d
Apply(f, d, a) ==
    CASE f = "user"    -> SetUser(d, a)
      [] f = "workdir" -> SetWorkingDirectory(d, a)
      [] f = "pidfile" -> SetPidfile(d, a)
      [] f = "stdout"  -> SetStdout(d, a)
      [] f = "stderr"  -> SetStderr(d, a)
      [] f = "umask"   -> SetUmask(d, a)

\* C28: each setter of the daemon.rs builder changes only its own field and
\* leaves the other five as they were, so calls of different setters give the
\* same configuration in either order.
C28_SettersChangeOwnFieldOnly ==
    [][/\ lastSet' # None
       /\ \A f \in Fields \ {lastSet'.val.setter} : cfg'[f] = cfg[f]
       /\ DOMAIN cfg' = Fields
       /\ \A f \in Fields, g \in Fields :
            f # g =>
              \A a \in ArgsOf(f), b \in ArgsOf(g) :
                 Apply(g, Apply(f, cfg, a), b) = Apply(f, Apply(g, cfg, b), a)]_vars

C28_Witness ==
    /\ lastSet # None
    /\ lastSet.val.setter = "stderr"
    /\ lastSet.val.arg # None
    /\ cfg.stderr = "out.log"
    /\ cfg.stdout = "/dev/null"
    /\ cfg.pidfile = Some("d.pid")
    /\ cfg.workdir = "work"
    /\ cfg.umask = 0
    /\ cfg.user # None

====
